---- MODULE Spec2Model ----
(***************************************************************************)
(* Model of the NPC dialogue engine (src/engine.py, class Engine): the     *)
(* relationship ledger, the sentiment scorer, the template renderer and    *)
(* the response option generator.  Python strings are TLA+ strings, read   *)
(* with Len, SubSeq and \o.                                                *)
(***************************************************************************)
EXTENDS Integers, Sequences, FiniteSets, TLC

VARIABLES relationship_states, update_calls, ret, callers

vars == <<relationship_states, update_calls, ret, callers>>

(***************************************************************************)
(* Bounds of the exploration.                                              *)
(***************************************************************************)
MaxLog == 2
MaxAsk == 3
MaxMixed == 6
MaxStreak == 50
MaxTier == 13
MaxOptions == 5
MaxCalls == 7

(***************************************************************************)
(* Python string primitives.                                               *)
(***************************************************************************)
Max(a, b) == IF a > b THEN a ELSE b
Min(a, b) == IF a < b THEN a ELSE b

CharAt(s, i) == SubSeq(s, i, i)

UpperCase == "ABCDEFGHIJKLMNOPQRSTUVWXYZ"
LowerCase == "abcdefghijklmnopqrstuvwxyz"

LowerMap ==
    [c \in {CharAt(UpperCase, i) : i \in 1..26} |->
        CharAt(LowerCase, CHOOSE i \in 1..26 : CharAt(UpperCase, i) = c)]

\* str.lower() on one character
LowerChar(c) == IF c \in DOMAIN LowerMap THEN LowerMap[c] ELSE c

\* str.lower() on the characters lo..hi of s
RECURSIVE LowerRange(_, _, _)
LowerRange(s, lo, hi) ==
    IF lo > hi THEN ""
    ELSE IF lo = hi THEN LowerChar(CharAt(s, lo))
    ELSE LET mid == (lo + hi) \div 2
         IN  LowerRange(s, lo, mid) \o LowerRange(s, mid + 1, hi)

\* str.lower()
Lower(s) == LowerRange(s, 1, Len(s))

\* the Python test  w in s  on strings
Contains(s, w) ==
    \E i \in 1..(Len(s) - Len(w) + 1) : SubSeq(s, i, i + Len(w) - 1) = w

(***************************************************************************)
(* Sentiment scorer: Engine._analyze_player_action.                        *)
(***************************************************************************)
positive_keywords == <<"help", "save", "protect", "agree", "gift", "compliment">>
negative_keywords == <<"attack", "steal", "lie", "threaten", "insult", "refuse">>

\* one  for word in keywords: if word in action_lower: score += step  loop
RECURSIVE ScanKeywords(_, _, _, _, _)
ScanKeywords(keywords, i, action_lower, step, score) ==
    IF i > Len(keywords) THEN score
    ELSE ScanKeywords(keywords, i + 1, action_lower, step,
                      IF Contains(action_lower, keywords[i])
                      THEN score + step ELSE score)

\* analyze_player_action without the lower(): a case-sensitive match
analyze_player_action_CaseSensitive(action) ==
    LET afterPositive == ScanKeywords(positive_keywords, 1, action, 2, 0)
        score == ScanKeywords(negative_keywords, 1, action, -2, afterPositive)
    IN  Max(-10, Min(10, score))

analyze_player_action(action) ==
    LET action_lower == Lower(action)
        afterPositive == ScanKeywords(positive_keywords, 1, action_lower, 2, 0)
        score == ScanKeywords(negative_keywords, 1, action_lower, -2, afterPositive)
    IN  Max(-10, Min(10, score))

(***************************************************************************)
(* Relationship ledger: Engine.update_player_relationship.                 *)
(***************************************************************************)
DefaultState == [affinity |-> 50, trust |-> 50, interactions |-> <<>>]

Known(states, npc_name) == npc_name \in DOMAIN states

\* sentiment_score * 0.5: the score is a multiple of 2, so the half is whole
TrustChange(sentiment_score) == sentiment_score \div 2

Interaction(player_action, context, sentiment_score) ==
    [action |-> player_action, context |-> context,
     sentiment |-> sentiment_score, timestamp |-> "simulated_timestamp"]

\* UpdatedState without the two clamps
UpdatedState_NoClamp(st, player_action, context) ==
    LET sentiment_score == analyze_player_action(player_action)
    IN  [affinity |-> st.affinity + sentiment_score,
         trust |-> st.trust + TrustChange(sentiment_score),
         interactions |-> Append(st.interactions,
                                 Interaction(player_action, context, sentiment_score))]

\* UpdatedState that puts the new record first
UpdatedState_Prepend(st, player_action, context) ==
    LET sentiment_score == analyze_player_action(player_action)
    IN  [affinity |-> Max(0, Min(100, st.affinity + sentiment_score)),
         trust |-> Max(0, Min(100, st.trust + TrustChange(sentiment_score))),
         interactions |-> <<Interaction(player_action, context, sentiment_score)>>
                          \o st.interactions]

\* UpdatedState that clamps affinity but leaves trust unclamped
UpdatedState_TrustUnclamped(st, player_action, context) ==
    LET sentiment_score == analyze_player_action(player_action)
    IN  [affinity |-> Max(0, Min(100, st.affinity + sentiment_score)),
         trust |-> st.trust + TrustChange(sentiment_score),
         interactions |-> Append(st.interactions,
                                 Interaction(player_action, context, sentiment_score))]

UpdatedState(st, player_action, context) ==
    LET sentiment_score == analyze_player_action(player_action)
        affinity == Max(0, Min(100, st.affinity + sentiment_score))
        trust == Max(0, Min(100, st.trust + TrustChange(sentiment_score)))
    IN  [affinity |-> affinity, trust |-> trust,
         interactions |-> Append(st.interactions,
                                 Interaction(player_action, context, sentiment_score))]

\* the last call and what it returned: kind names the operation ("raise" when
\* it ended in an exception), consulted the helper methods it ran
NoReturn == [kind |-> "none", npc |-> "", context |-> "", text |-> "",
             options |-> <<>>, num |-> 0, style |-> "", mood |-> "",
             consulted |-> {}]

\* update_player_relationship whose first call for a name only stores the
\* defaults: the delta is applied from the second call on
update_player_relationship_InitOnly(npc_name, player_action, context) ==
    /\ relationship_states' =
          [n \in DOMAIN relationship_states \cup {npc_name} |->
              IF n # npc_name THEN relationship_states[n]
              ELSE IF Known(relationship_states, npc_name)
                   THEN UpdatedState(relationship_states[npc_name], player_action, context)
                   ELSE [DefaultState EXCEPT !.interactions =
                            <<Interaction(player_action, context,
                                          analyze_player_action(player_action))>>]]
    /\ update_calls' = [update_calls EXCEPT ![npc_name] = @ + 1]
    /\ ret' = [NoReturn EXCEPT !.kind = "update", !.npc = npc_name,
                               !.context = context, !.text = player_action]
    /\ UNCHANGED callers

update_player_relationship(npc_name, player_action, context) ==
    LET st == IF Known(relationship_states, npc_name)
              THEN relationship_states[npc_name] ELSE DefaultState
    IN  /\ relationship_states' =
              [n \in DOMAIN relationship_states \cup {npc_name} |->
                  IF n = npc_name THEN UpdatedState(st, player_action, context)
                  ELSE relationship_states[n]]
        /\ update_calls' = [update_calls EXCEPT ![npc_name] = @ + 1]
        /\ ret' = [NoReturn EXCEPT !.kind = "update", !.npc = npc_name,
                                   !.context = context, !.text = player_action]
        /\ UNCHANGED callers

(***************************************************************************)
(* Engine.update_player_relationship run by two threads of a hosting       *)
(* application on one Engine.  Each statement of the method is a read step *)
(* and a write step; a thread's frame holds its arguments, its locals and  *)
(* the position it has reached.  callers.guarded tells whether the host    *)
(* wraps the call in a lock, callers.lock which thread holds it.           *)
(***************************************************************************)
Threads == {1, 2}

\* entry: the inner dict the statement in progress has fetched ("live" while
\* it is the value of relationship_states[npc_name], "orphan" once another
\* thread has assigned a new dict to the key); value: the number it has read
IdleFrame == [pc |-> "idle", npc_name |-> "", player_action |-> "", context |-> "",
              sentiment_score |-> 0, entry |-> "none", value |-> 0]

NoCallers == [guarded |-> FALSE, lock |-> 0, frame |-> [t \in Threads |-> IdleFrame]]

\* the host's lock around the call: taken before the method starts, given
\* back when it returns
CanAcquire == callers.guarded => callers.lock = 0
Acquired(t) == IF callers.guarded THEN t ELSE 0
Released == 0

\* calls begun so far: the ones that returned and the ones in progress
CallsBegun ==
    LET names == DOMAIN update_calls
        RECURSIVE Sum(_)
        Sum(S) == IF S = {} THEN 0
                  ELSE LET n == CHOOSE m \in S : TRUE
                       IN  update_calls[n] + Sum(S \ {n})
    IN  Sum(names) + Cardinality({t \in Threads : callers.frame[t].pc # "idle"})

\* a thread enters the method
call_update_player_relationship(t, npc_name, player_action, context) ==
    /\ callers.frame[t].pc = "idle"
    /\ CanAcquire
    /\ callers' = [callers EXCEPT
                      !.lock = Acquired(t),
                      !.frame[t] = [IdleFrame EXCEPT !.pc = "check",
                                                    !.npc_name = npc_name,
                                                    !.player_action = player_action,
                                                    !.context = context]]
    /\ UNCHANGED <<relationship_states, update_calls, ret>>

\* sentiment_score = self._analyze_player_action(player_action)
Scored(frame) ==
    [frame EXCEPT !.sentiment_score = analyze_player_action(frame.player_action),
                  !.pc = "add"]

\* if npc_name not in self.relationship_states
check_entry(t) ==
    LET frame == callers.frame[t]
    IN  /\ frame.pc = "check"
        /\ callers' = [callers EXCEPT !.frame[t] =
                          IF Known(relationship_states, frame.npc_name)
                          THEN Scored(frame)
                          ELSE [frame EXCEPT !.pc = "create"]]
        /\ UNCHANGED <<relationship_states, update_calls, ret>>

\* self.relationship_states[npc_name] = {...}: a new dict takes the place of
\* the one under the key, which the statements that fetched it keep writing to
create_entry(t) ==
    LET frame == callers.frame[t]
    IN  /\ frame.pc = "create"
        /\ relationship_states' =
              [n \in DOMAIN relationship_states \cup {frame.npc_name} |->
                  IF n = frame.npc_name THEN DefaultState ELSE relationship_states[n]]
        /\ callers' = [callers EXCEPT !.frame =
                          [u \in Threads |->
                              IF u = t THEN Scored(frame)
                              ELSE IF /\ callers.frame[u].npc_name = frame.npc_name
                                      /\ callers.frame[u].entry = "live"
                                   THEN [callers.frame[u] EXCEPT !.entry = "orphan"]
                                   ELSE callers.frame[u]]]
        /\ UNCHANGED <<update_calls, ret>>

\* the right-hand side of an assignment: read field of the entry
Read(t, from, field, to) ==
    LET frame == callers.frame[t]
    IN  /\ frame.pc = from
        /\ callers' = [callers EXCEPT !.frame[t] =
                          [frame EXCEPT !.pc = to,
                                        !.value = relationship_states[frame.npc_name][field]]]
        /\ UNCHANGED <<relationship_states, update_calls, ret>>

\* the target of an assignment or of a method call: fetch the inner dict
Target(t, from, to) ==
    LET frame == callers.frame[t]
    IN  /\ frame.pc = from
        /\ callers' = [callers EXCEPT !.frame[t] =
                          [frame EXCEPT !.pc = to, !.entry = "live"]]
        /\ UNCHANGED <<relationship_states, update_calls, ret>>

\* the read half of an augmented assignment: fetch the inner dict and read
\* field from it
Fetch(t, from, field, to) ==
    LET frame == callers.frame[t]
    IN  /\ frame.pc = from
        /\ callers' = [callers EXCEPT !.frame[t] =
                          [frame EXCEPT !.pc = to, !.entry = "live",
                                        !.value = relationship_states[frame.npc_name][field]]]
        /\ UNCHANGED <<relationship_states, update_calls, ret>>

\* the write half: dict[field] = v on the dict that was fetched
Assign(t, from, field, v, to) ==
    LET frame == callers.frame[t]
    IN  /\ frame.pc = from
        /\ relationship_states' =
              IF frame.entry = "live"
              THEN [relationship_states EXCEPT ![frame.npc_name][field] = v]
              ELSE relationship_states
        /\ callers' = [callers EXCEPT !.frame[t] =
                          [frame EXCEPT !.pc = to, !.entry = "none", !.value = 0]]
        /\ UNCHANGED <<update_calls, ret>>

\* max(0, min(100, v))
Clamped(v) == Max(0, Min(100, v))

\* ...["affinity"] += sentiment_score
add_affinity_read(t) == Fetch(t, "add", "affinity", "add_write")

add_affinity_write(t) ==
    Assign(t, "add_write", "affinity",
           callers.frame[t].value + callers.frame[t].sentiment_score, "clamp")

\* ...["affinity"] = max(0, min(100, ...["affinity"]))
clamp_affinity_read(t) == Read(t, "clamp", "affinity", "clamp_target")

clamp_affinity_target(t) == Target(t, "clamp_target", "clamp_write")

\* clamp_affinity_write that stores the value as it was read
clamp_affinity_write_Unclamped(t) ==
    Assign(t, "clamp_write", "affinity", callers.frame[t].value, "trust")

clamp_affinity_write(t) ==
    Assign(t, "clamp_write", "affinity", Clamped(callers.frame[t].value), "trust")

\* trust_change = sentiment_score * 0.5; ...["trust"] += trust_change
add_trust_read(t) == Fetch(t, "trust", "trust", "trust_write")

add_trust_write(t) ==
    Assign(t, "trust_write", "trust",
           callers.frame[t].value + TrustChange(callers.frame[t].sentiment_score),
           "trust_clamp")

\* ...["trust"] = max(0, min(100, ...["trust"]))
clamp_trust_read(t) == Read(t, "trust_clamp", "trust", "trust_clamp_target")

clamp_trust_target(t) == Target(t, "trust_clamp_target", "trust_clamp_write")

clamp_trust_write(t) ==
    Assign(t, "trust_clamp_write", "trust", Clamped(callers.frame[t].value), "record")

\* ...["interactions"]: the list is fetched before the record is built
record_read(t) == Target(t, "record", "append")

\* .append({...}) on the list that was fetched, and the return
record_append(t) ==
    LET frame == callers.frame[t]
    IN  /\ frame.pc = "append"
        /\ relationship_states' =
              IF frame.entry = "live"
              THEN [relationship_states EXCEPT ![frame.npc_name].interactions =
                       Append(@, Interaction(frame.player_action, frame.context,
                                             frame.sentiment_score))]
              ELSE relationship_states
        /\ update_calls' = [update_calls EXCEPT ![frame.npc_name] = @ + 1]
        /\ ret' = [NoReturn EXCEPT !.kind = "update", !.npc = frame.npc_name,
                                   !.context = frame.context,
                                   !.text = frame.player_action]
        /\ callers' = [callers EXCEPT !.lock = Released, !.frame[t] = IdleFrame]


(***************************************************************************)
(* Profile store: Engine.npc_profiles, read-only after load.  A dict is a  *)
(* sequence of <<key, value>> pairs in insertion order; a missing optional *)
(* key is the empty dict or string that .get() defaults to.                *)
(***************************************************************************)
npc_profiles ==
    [npcs |-> <<
      [name |-> "Dr. Elian Thaumatec", class |-> "Techno-Mage Scientist",
       alignment |-> "Neutral Good",
       personality_traits |-> << <<"patience", 6>>, <<"curiosity", 9>>, <<"wisdom", 9>> >>,
       backstory |-> "Elian studied at the Arcane Institute. He found the link between magic and quantum fields. Now he seeks the truth.",
       interaction_style |-> << <<"under_stress", "Becomes hyper-focused.">>,
                                <<"teaching_moments", "Explains with diagrams.">> >>],
      [name |-> "Blip", class |-> "Sentient Alien Pet",
       alignment |-> "Chaotic Neutral",
       personality_traits |-> << <<"empathy", 8>>, <<"enthusiasm", 7>> >>,
       backstory |-> "Blip fell from the stars",
       interaction_style |-> << <<"conflict_resolution", "Chirps until everyone calms down.">>,
                                <<"first_meeting", "Sniffs the newcomer.">> >>],
      [name |-> "Captain Lyra Novastella", class |-> "Star Explorer",
       alignment |-> "Chaotic Good",
       personality_traits |-> << <<"courage", 9>> >>,
       backstory |-> "",
       interaction_style |-> <<>>],
      [name |-> "Warden Krag", class |-> "Gate Keeper",
       alignment |-> "Lawful Evil",
       personality_traits |-> <<>>,
       backstory |-> "Krag guards the gate. He never sleeps.",
       interaction_style |-> <<>>],
      [name |-> "Echo", class |-> "Hero Apprentice",
       alignment |-> "True Neutral",
       personality_traits |-> << <<"loyalty", 5>> >>,
       backstory |-> "Echo repeats what it hears. {npc_name} was its first word. It never stopped.",
       interaction_style |-> <<>>],
      [name |-> "Sylva Aerafrond", class |-> "Guardian of the Floating Forests",
       alignment |-> "Neutral",
       personality_traits |-> << <<"compassion", 7>> >>,
       backstory |-> "Sylva tends the floating forests.",
       interaction_style |-> <<>>]
    >>]

\* next((npc for npc in npcs if npc["name"] == npc_name), None)
HasProfile(npc_name) ==
    \E i \in 1..Len(npc_profiles.npcs) : npc_profiles.npcs[i].name = npc_name

FindProfile(npc_name) ==
    npc_profiles.npcs[CHOOSE i \in 1..Len(npc_profiles.npcs) :
        /\ npc_profiles.npcs[i].name = npc_name
        /\ \A j \in 1..(i - 1) : npc_profiles.npcs[j].name # npc_name]

\* key in dict, dict[key]
HasKey(dict, key) == \E i \in 1..Len(dict) : dict[i][1] = key
Get(dict, key) == dict[CHOOSE i \in 1..Len(dict) : dict[i][1] = key][2]

\* max(dict.items(), key=lambda x: x[1]): the first item of maximal value
MaxItem(dict) ==
    dict[CHOOSE i \in 1..Len(dict) :
        /\ \A j \in 1..Len(dict) : dict[j][2] <= dict[i][2]
        /\ \A j \in 1..(i - 1) : dict[j][2] < dict[i][2]]

(***************************************************************************)
(* str.split(), str.split('.') and str.strip().                            *)
(***************************************************************************)
\* s.split(sep) for a one-character separator: the pieces of s between
\* the occurrences of sep, empty pieces included
SplitOn(s, sep) ==
    LET at == {i \in 1..Len(s) : CharAt(s, i) = sep}
        \* position of the k-th separator; 0 before the first, Len(s)+1 after the last
        pos(k) == IF k = 0 THEN 0
                  ELSE IF k > Cardinality(at) THEN Len(s) + 1
                  ELSE CHOOSE p \in at : Cardinality({q \in at : q < p}) = k - 1
    IN  [k \in 1..(Cardinality(at) + 1) |-> SubSeq(s, pos(k - 1) + 1, pos(k) - 1)]

\* s.split(): the words between runs of blanks, no empty word
SplitWhitespace(s) == SelectSeq(SplitOn(s, " "), LAMBDA w : w # "")

RECURSIVE Strip(_)
Strip(s) ==
    IF s = "" THEN s
    ELSE IF CharAt(s, 1) = " " THEN Strip(SubSeq(s, 2, Len(s)))
    ELSE IF CharAt(s, Len(s)) = " " THEN Strip(SubSeq(s, 1, Len(s) - 1))
    ELSE s

\* str.replace(key, value): every occurrence, left to right, no rescan of
\* the text put in
RECURSIVE Replace(_, _, _)
Replace(s, key, value) ==
    LET at == {i \in 1..(Len(s) - Len(key) + 1) : SubSeq(s, i, i + Len(key) - 1) = key}
        first == CHOOSE i \in at : \A j \in at : i <= j
    IN  IF at = {} THEN s
        ELSE SubSeq(s, 1, first - 1) \o value
             \o Replace(SubSeq(s, first + Len(key), Len(s)), key, value)

(***************************************************************************)
(* Template catalog: Engine._initialize_prompt_templates.                  *)
(***************************************************************************)
prompt_templates ==
    [greeting |->
        [formal |-> "Greetings, traveler. I am {npc_name}, {npc_title}. {custom_intro}",
         friendly |-> "Hello! Great to see you here! I'm {npc_name}. {custom_intro}",
         cautious |-> "Hmm... {hesitation} I'm {npc_name}. {custom_intro}",
         excited |-> "Wow! A new face! I'm {npc_name}! {custom_intro}"],
     quest_offer |->
        [urgent |-> "I need your help immediately. {quest_description} Time is running out!",
         mysterious |-> "I have an... interesting proposal. {quest_description} There's more to this than meets the eye.",
         casual |-> "If you have time, could you help me with something? {quest_description} No rush.",
         challenging |-> "I'm looking for someone with your skills. {quest_description} Few could manage this."],
     response_to_player_choice |->
        [approval |-> "Excellent choice! {approval_response}",
         disappointment |-> "{disappointment_response} I expected more from you.",
         surprise |-> "Interesting... {surprise_response} I didn't expect that.",
         neutral |-> "I understand your decision. {neutral_response}"],
     mood_modifiers |->
        [happy |->
            [word_choices |-> <<"wonderful", "excellent", "fantastic", "amazing">>,
             sentence_endings |-> <<"!", "! That's great!", "! How delightful!">>,
             speech_patterns |-> "expansive and enthusiastic"],
         sad |->
            [word_choices |-> <<"unfortunately", "sadly", "regrettably", "with sorrow">>,
             sentence_endings |-> <<"...", ". *sigh*", ". Such is life...">>,
             speech_patterns |-> "slow and melancholic"],
         angry |->
            [word_choices |-> <<"irritating", "absurd", "unacceptable", "outrageous">>,
             sentence_endings |-> <<".", ". Understood?", "!">>,
             speech_patterns |-> "short and intense"],
         curious |->
            [word_choices |-> <<"interesting", "fascinating", "intriguing", "curious">>,
             sentence_endings |-> <<"?", "... don't you think?", "... I wonder why.">>,
             speech_patterns |-> "questioning and reflective"]]]

GenericTemplate == "Hello, I'm {npc_name}. How can I help?"

(***************************************************************************)
(* Style selector, template selection, mood: the helpers of                *)
(* Engine.generate_dialogue.                                               *)
(***************************************************************************)
\* alignment.split()[1] raises IndexError on an alignment of fewer than two words
StyleRaises(npc_profile, context) ==
    context = "greeting" /\ Len(SplitWhitespace(npc_profile.alignment)) < 2

\* determine_interaction_style that reads the first word of the alignment
determine_interaction_style_FirstWord(npc_profile, context, player_history) ==
    IF context = "greeting"
    THEN IF SplitWhitespace(npc_profile.alignment)[1] = "Good"
         THEN "friendly" ELSE "cautious"
    ELSE IF context = "quest_offer"
    THEN IF Contains(Lower(context), "urgency") THEN "urgent"
         ELSE IF npc_profile.class \in {"Techno-Mage Scientist", "Sentient Alien Pet"}
              THEN "mysterious"
              ELSE "casual"
    ELSE IF context = "response_to_player_choice"
    THEN IF player_history = <<>> THEN "neutral" ELSE "approval"
    ELSE "friendly"

determine_interaction_style(npc_profile, context, player_history) ==
    IF context = "greeting"
    THEN IF SplitWhitespace(npc_profile.alignment)[2] = "Good"
         THEN "friendly" ELSE "cautious"
    ELSE IF context = "quest_offer"
    THEN IF Contains(Lower(context), "urgency") THEN "urgent"
         ELSE IF npc_profile.class \in {"Techno-Mage Scientist", "Sentient Alien Pet"}
              THEN "mysterious"
              ELSE "casual"
    ELSE IF context = "response_to_player_choice"
    THEN IF player_history = <<>> THEN "neutral" ELSE "approval"
    ELSE "friendly"

\* select_template that tests the context key only and takes whatever the
\* inner mapping gives for the style
select_template_ContextOnly(context, interaction_style, player_choice) ==
    IF context \in DOMAIN prompt_templates
    THEN IF interaction_style \in DOMAIN prompt_templates[context]
         THEN prompt_templates[context][interaction_style]
         ELSE "None"
    ELSE GenericTemplate

select_template(context, interaction_style, player_choice) ==
    IF /\ context \in DOMAIN prompt_templates
       /\ interaction_style \in DOMAIN prompt_templates[context]
    THEN prompt_templates[context][interaction_style]
    ELSE GenericTemplate

moods == <<"happy", "sad", "angry", "curious">>

\* random.choice(seq)
Choice(seq) == {seq[i] : i \in 1..Len(seq)}

\* the moods _determine_mood can return: random.random() < p takes either
\* branch, random.choice(moods) any mood
determine_mood(npc_profile, player_history, player_choice) ==
    LET personality_traits == npc_profile.personality_traits
        max_trait == MaxItem(personality_traits)
        fallback == {"curious"} \cup Choice(moods)
    IN  IF personality_traits # <<>>
        THEN IF max_trait[1] \in {"optimism", "enthusiasm", "curiosity"}
             THEN {"happy"} \cup Choice(moods)
             ELSE IF max_trait[1] \in {"wisdom", "empathy", "compassion"}
             THEN {"curious"} \cup Choice(moods)
             ELSE IF max_trait[1] \in {"determination", "courage"}
             THEN Choice(moods)
             ELSE fallback
        ELSE fallback

apply_mood_modifiers(template, mood) ==
    IF mood \notin DOMAIN prompt_templates.mood_modifiers
    THEN template
    ELSE LET mood_data == prompt_templates.mood_modifiers[mood]
             mood_prefix == "[" \o mood_data.speech_patterns \o "] "
         IN  mood_prefix \o template

(***************************************************************************)
(* Template renderer: Engine._fill_template, Engine._generate_intro_snippet*)
(***************************************************************************)
generate_intro_snippet(npc_profile) ==
    LET backstory == npc_profile.backstory
        sentences == SplitOn(backstory, ".")
    IN  IF backstory # ""
        THEN IF Len(sentences) > 2
             THEN Strip(sentences[2]) \o "."
             ELSE SplitOn(backstory, ".")[1] \o "."
        ELSE "I have a story to tell."

Hesitations == <<"Who approaches?", "You seem... different.", "Hmm...">>

\* the replacements dict, in insertion order; hesitation is the random.choice
Replacements(npc_profile, hesitation) ==
    << <<"{npc_name}", npc_profile.name>>,
       <<"{npc_title}", npc_profile.class>>,
       <<"{custom_intro}", "I am " \o npc_profile.alignment \o " and "
                           \o generate_intro_snippet(npc_profile)>>,
       <<"{hesitation}", hesitation>>,
       <<"{quest_description}", "[Quest description would be dynamically generated]">>,
       <<"{approval_response}", "This shows your character.">>,
       <<"{disappointment_response}", "This wasn't what I expected.">>,
       <<"{surprise_response}", "You continue to surprise me.">>,
       <<"{neutral_response}", "Let's see where this leads us.">> >>

\* for key, value in replacements.items(): filled = filled.replace(key, value)
RECURSIVE ReplaceAll(_, _, _)
ReplaceAll(filled_template, replacements, i) ==
    IF i > Len(replacements) THEN filled_template
    ELSE ReplaceAll(Replace(filled_template, replacements[i][1], replacements[i][2]),
                    replacements, i + 1)

fill_template(template, npc_profile, context, player_choice, hesitation) ==
    ReplaceAll(template, Replacements(npc_profile, hesitation), 1)

(***************************************************************************)
(* Engine.generate_dialogue.                                               *)
(***************************************************************************)
DialogueHelpers ==
    {"_determine_interaction_style", "_select_template", "_determine_mood",
     "_apply_mood_modifiers", "_fill_template", "_generate_intro_snippet"}

generate_dialogue(npc_name, context, player_history, player_choice) ==
    /\ UNCHANGED <<relationship_states, update_calls, callers>>
    /\ IF ~HasProfile(npc_name)
       THEN ret' = [NoReturn EXCEPT !.kind = "dialogue", !.npc = npc_name,
                        !.context = context,
                        !.text = "[NPC '" \o npc_name \o "' not found in system]"]
       ELSE LET npc_profile == FindProfile(npc_name) IN
            IF StyleRaises(npc_profile, context)
            THEN ret' = [NoReturn EXCEPT !.kind = "raise", !.npc = npc_name,
                             !.context = context, !.text = "IndexError",
                             !.consulted = {"_determine_interaction_style"}]
            ELSE LET interaction_style ==
                         determine_interaction_style(npc_profile, context, player_history)
                     template == select_template(context, interaction_style, player_choice)
                 IN  \E mood \in determine_mood(npc_profile, player_history, player_choice),
                        hesitation \in Choice(Hesitations) :
                       ret' = [NoReturn EXCEPT !.kind = "dialogue", !.npc = npc_name,
                                 !.context = context,
                                 !.style = interaction_style, !.mood = mood,
                                 !.text = fill_template(apply_mood_modifiers(template, mood),
                                              npc_profile, context, player_choice, hesitation),
                                 !.consulted = DialogueHelpers]

(***************************************************************************)
(* Response option generator: the helpers of                               *)
(* Engine.generate_response_options.                                       *)
(***************************************************************************)
\* the nicknames _get_player_nickname can return
get_player_nickname(affinity) ==
    IF affinity > 90
    THEN Choice(<<"my dear friend", "partner", "adventure companion">>)
    ELSE IF affinity > 70
    THEN Choice(<<"friend", "partner", "adventurer">>)
    ELSE {"traveler"}

generate_suggestion(npc_profile, context, positive) ==
    IF Contains(npc_profile.class, "Explorer")
    THEN IF positive THEN "explore that less-traveled path"
         ELSE "follow the safer route this time"
    ELSE IF Contains(npc_profile.class, "Scientist")
    THEN IF positive THEN "analyze the patterns before deciding"
         ELSE "consider the unknown variables"
    ELSE IF Contains(npc_profile.class, "Guardian")
    THEN IF positive THEN "protect what's most valuable first"
         ELSE "retreat and reassess the situation"
    ELSE IF positive THEN "follow your intuition"
         ELSE "think more about the consequences"

generate_cautious_response(npc_profile) ==
    LET alignment == SplitWhitespace(npc_profile.alignment)
    IN  IF alignment[1] = "Lawful"
        THEN "We need to consider the rules and traditions here"
        ELSE IF alignment[1] = "Chaotic"
        THEN "I don't much trust rigid plans in this situation"
        ELSE "I see pros and cons on both sides"

generate_honest_opinion(npc_profile, context) ==
    LET personality_traits == npc_profile.personality_traits
        trait_name == MaxItem(personality_traits)[1]
        fallback == "I think we should follow what seems most aligned with our goals"
    IN  IF personality_traits # <<>>
        THEN IF trait_name \in {"optimism", "enthusiasm", "curiosity"}
             THEN "I believe we should try the bolder approach"
             ELSE IF trait_name \in {"wisdom", "patience"}
             THEN "I suggest we observe more before acting"
             ELSE IF trait_name \in {"determination", "courage"}
             THEN "we should face this head-on, without hesitation"
             ELSE fallback
        ELSE fallback

generate_factual_response(npc_profile, context) ==
    LET npc_class == npc_profile.class
    IN  IF Contains(npc_class, "Explorer")
        THEN "I've seen similar situations in my travels, and usually it's best to map all possible routes"
        ELSE IF Contains(npc_class, "Scientist")
        THEN "the data suggests there are multiple variables to consider, especially the time factor"
        ELSE IF Contains(npc_class, "Guardian")
        THEN "the natural balance suggests we should intervene minimally, but with precision"
        ELSE "based on what we know, we have several viable options to consider"

perspectives ==
    << <<"Star Explorer", "each journey reveals new possibilities we couldn't imagine before setting out">>,
       <<"Techno-Mage Scientist", "the intersection between science and the unexplained often reveals the most elegant solutions">>,
       <<"Guardian of the Floating Forests", "all parts of a system are connected, and each action creates ripples through the whole">>,
       <<"Sentient Alien Pet", "communication goes far beyond words; sometimes the unspoken is more important">>,
       <<"Hero Apprentice", "the stories we hear shape the stories we live, and each of us is writing our own chapter">> >>

\* the first perspective whose class key occurs in npc_class
generate_class_perspective(npc_class) ==
    LET hits == {i \in 1..Len(perspectives) : Contains(npc_class, perspectives[i][1])}
    IN  IF hits = {}
        THEN "each situation is unique and deserves careful consideration"
        ELSE perspectives[CHOOSE i \in hits : \A j \in hits : i <= j][2]

generate_personality_based_response(npc_profile, context) ==
    LET interaction_style == npc_profile.interaction_style
        cue == Lower(context)
    IN  IF HasKey(interaction_style, "under_stress") /\ Contains(cue, "stress")
        THEN "[Under pressure] " \o Get(interaction_style, "under_stress")
        ELSE IF HasKey(interaction_style, "teaching_moments") /\ Contains(cue, "learn")
        THEN "[Teaching] " \o Get(interaction_style, "teaching_moments")
        ELSE IF /\ HasKey(interaction_style, "conflict_resolution")
                /\ (Contains(cue, "conflict") \/ Contains(cue, "disagree"))
        THEN "[Resolving conflict] " \o Get(interaction_style, "conflict_resolution")
        ELSE IF HasKey(interaction_style, "first_meeting") /\ Contains(cue, "new")
        THEN "[First meeting] " \o Get(interaction_style, "first_meeting")
        ELSE "As a " \o npc_profile.class \o ", my perspective is that "
             \o generate_class_perspective(npc_profile.class)

\* relationship_states.get(npc_name, {"affinity": 50, "trust": 50})
GetRelationship(states, npc_name) ==
    IF Known(states, npc_name)
    THEN [affinity |-> states[npc_name].affinity, trust |-> states[npc_name].trust]
    ELSE [affinity |-> 50, trust |-> 50]

\* the candidate pool, in the order of the appends; nickname is the
\* random.choice of _get_player_nickname
OptionPool(npc_profile, context, affinity, trust, nickname) ==
    (IF affinity > 60
     THEN << "I completely understand, " \o nickname \o ". "
             \o "Considering our history together, I suggest "
             \o generate_suggestion(npc_profile, context, TRUE) \o "." >>
     ELSE <<>>)
    \o
    (IF affinity < 40
     THEN << "Hmm. " \o generate_cautious_response(npc_profile) \o ". "
             \o "Perhaps we should "
             \o generate_suggestion(npc_profile, context, FALSE) \o "." >>
     ELSE <<>>)
    \o
    (IF trust > 70
     THEN << "I trust you to make the right decision here. "
             \o "If you want my honest opinion, "
             \o generate_honest_opinion(npc_profile, context) \o "." >>
     ELSE <<>>)
    \o
    << "Considering the facts, " \o generate_factual_response(npc_profile, context) \o "." >>
    \o
    << generate_personality_based_response(npc_profile, context) >>

\* the helper methods the pool consults
PoolHelpers(affinity, trust) ==
    (IF affinity > 60 THEN {"_get_player_nickname", "_generate_suggestion"} ELSE {})
    \cup (IF affinity < 40 THEN {"_generate_cautious_response", "_generate_suggestion"} ELSE {})
    \cup (IF trust > 70 THEN {"_generate_honest_opinion"} ELSE {})
    \cup {"_generate_factual_response", "_generate_personality_based_response"}

\* Samples that returns the whole pool
Samples_All(options, k) == {options}

\* random.sample(options, k): k entries at distinct positions, in any order
Samples(options, k) ==
    {[i \in 1..k |-> options[pick[i]]] :
        pick \in {f \in [1..k -> 1..Len(options)] :
                    \A i, j \in 1..k : i # j => f[i] # f[j]}}

FillerEndings == <<"next steps", "other options", "alternatives">>

\* the while loop that appends one filler per missing option
Padded(options, num_options) ==
    {options \o [i \in 1..(num_options - Len(options)) |->
                    "Interesting perspective. Let's consider " \o ending[i] \o "."] :
        ending \in [1..(num_options - Len(options)) -> Choice(FillerEndings)]}

\* Repeat that forgets the count
Repeat_Once(x, k) == <<x>>

\* [x] * k
Repeat(x, k) == [i \in 1..k |-> x]

(***************************************************************************)
(* Engine.generate_response_options.                                       *)
(***************************************************************************)
\* what the call returns
OptionsReturn(npc_name, context, player_statement, num_options) ==
       IF ~HasProfile(npc_name)
       THEN ret' = [NoReturn EXCEPT !.kind = "options", !.npc = npc_name,
                        !.context = context, !.num = num_options,
                        !.options = Repeat("[NPC '" \o npc_name \o "' not found]",
                                           num_options)]
       ELSE LET npc_profile == FindProfile(npc_name)
                relationship == GetRelationship(relationship_states, npc_name)
                affinity == relationship.affinity
                trust == relationship.trust
            IN  \E nickname \in get_player_nickname(affinity) :
                  LET options == OptionPool(npc_profile, context, affinity, trust, nickname)
                  IN  \E result \in (IF Len(options) > num_options
                                     THEN Samples(options, num_options)
                                     ELSE Padded(options, num_options)) :
                        ret' = [NoReturn EXCEPT !.kind = "options", !.npc = npc_name,
                                  !.context = context, !.num = num_options,
                                  !.options = result,
                                  !.consulted = PoolHelpers(affinity, trust)]

\* generate_response_options that creates the ledger entry it reads
generate_response_options_Creates(npc_name, context, player_statement, num_options) ==
    /\ relationship_states' =
          [n \in DOMAIN relationship_states \cup {npc_name} |->
              IF Known(relationship_states, n) THEN relationship_states[n]
              ELSE DefaultState]
    /\ UNCHANGED <<update_calls, callers>>
    /\ OptionsReturn(npc_name, context, player_statement, num_options)

generate_response_options(npc_name, context, player_statement, num_options) ==
    /\ UNCHANGED <<relationship_states, update_calls, callers>>
    /\ OptionsReturn(npc_name, context, player_statement, num_options)

(***************************************************************************)
(* A direct call of the sentiment scorer.                                  *)
(***************************************************************************)
score_player_action ==
    /\ ret.kind = "call"
    /\ UNCHANGED <<relationship_states, update_calls, callers>>
    /\ ret' = [ret EXCEPT !.kind = "score", !.num = analyze_player_action(ret.text)]

(***************************************************************************)
(* Inputs.                                                                 *)
(***************************************************************************)
ActHelpProtect == "I will help and protect you"
ActAllPositive == "Help, save, protect, agree, gift and compliment"
ActAllNegative == "Attack, steal, lie, threaten, insult and refuse"

ProfileNames == {npc_profiles.npcs[i].name : i \in 1..Len(npc_profiles.npcs)}
AllNames == ProfileNames \cup {"Ghost"}

NoHistory == <<>>
SomeHistory == <<"helped the village">>

DialogueContexts ==
    {"greeting", "quest_offer", "response_to_player_choice", "mood_modifiers", "farewell",
     "quest_offer_urgency"}

\* texts for the scorer: every selection of the words below, in this order,
\* separated by blanks; the keywords appear in several casings and inside
\* longer words
ScoreWords ==
    <<"Help", "saved", "PROTECT", "agree", "Gift", "compliments",
      "attack", "Steal", "believe", "THREATEN", "insulting", "Refuse",
      "you", "helpful">>

RECURSIVE JoinWords(_, _)
JoinWords(chosen, i) ==
    IF i > Len(ScoreWords) THEN ""
    ELSE (IF i \in chosen THEN ScoreWords[i] \o " " ELSE "") \o JoinWords(chosen, i + 1)

ScoreTexts == {JoinWords(chosen, 1) : chosen \in SUBSET (1..Len(ScoreWords))}

LogLen(npc_name) ==
    IF Known(relationship_states, npc_name)
    THEN Len(relationship_states[npc_name].interactions) ELSE 0

\* the action texts of the log of npc_name, oldest first
PastActions(npc_name) ==
    IF Known(relationship_states, npc_name)
    THEN [i \in 1..LogLen(npc_name) |->
             relationship_states[npc_name].interactions[i].action]
    ELSE <<>>

\* every record of the log of npc_name carries the action text a
OnlyAction(npc_name, a) ==
    \/ ~Known(relationship_states, npc_name)
    \/ \A i \in 1..LogLen(npc_name) :
          relationship_states[npc_name].interactions[i].action = a

Init ==
    /\ relationship_states = <<>>
    /\ update_calls = [n \in AllNames |-> 0]
    /\ ret = NoReturn
    /\ callers = NoCallers

(***************************************************************************)
(* The three public operations together, on small inputs.                  *)
(***************************************************************************)
Next ==
    \/ \E n \in {"Dr. Elian Thaumatec", "Ghost"},
          a \in {ActHelpProtect, ActAllNegative} :
          /\ LogLen(n) < MaxLog
          /\ n = "Dr. Elian Thaumatec" => a = ActHelpProtect
          /\ update_player_relationship(n, a, "cooperative mission")
    \/ \E n \in {"Dr. Elian Thaumatec", "Ghost"},
          c \in {"greeting", "farewell"} :
          generate_dialogue(n, c, NoHistory, "")
    \/ \E n \in {"Dr. Elian Thaumatec", "Ghost"}, k \in 0..MaxAsk :
          generate_response_options(n, "problem solving", "We need a plan", k)

Spec == Init /\ [][Next]_vars

(***************************************************************************)
(* The ledger alone: every mixed sequence of at most MaxMixed updates and  *)
(* every run of at most MaxStreak updates with one action text.            *)
(***************************************************************************)
TotalLog == LogLen("Dr. Elian Thaumatec") + LogLen("Ghost")

NextLedger ==
    \E n \in {"Dr. Elian Thaumatec", "Ghost"},
       a \in {ActHelpProtect, ActAllPositive, ActAllNegative},
       c \in {"cooperative mission"} :
        /\ \/ TotalLog < MaxMixed
           \/ LogLen(n) < MaxStreak /\ OnlyAction(n, a) /\ LogLen(n) = TotalLog
        /\ n = "Ghost" => a = ActAllNegative
        /\ update_player_relationship(n, a, c)

SpecLedger == Init /\ [][NextLedger]_vars

(***************************************************************************)
(* Dialogue generation for every profile and context.                      *)
(***************************************************************************)
NextDialogue ==
    \/ \E n \in AllNames, c \in DialogueContexts :
          generate_dialogue(n, c, NoHistory, "")
    \/ \E n \in {"Dr. Elian Thaumatec", "Warden Krag", "Ghost"},
          c \in {"greeting", "response_to_player_choice"} :
          generate_dialogue(n, c, SomeHistory, "spared the thief")

SpecDialogue == Init /\ [][NextDialogue]_vars

(***************************************************************************)
(* Response options in every relationship tier: at most MaxTier updates,   *)
(* a run of one action text followed by a run of the other, move affinity  *)
(* and trust, then options are asked for.                                  *)
(***************************************************************************)
\* the log of npc_name followed by a changes its action text at most once
OneSwitch(npc_name, a) ==
    LET log == PastActions(npc_name) \o <<a>>
    IN  Cardinality({i \in 1..(Len(log) - 1) : log[i] # log[i + 1]}) <= 1

NextOptions ==
    \/ \E a \in {ActAllPositive, ActAllNegative} :
          /\ LogLen("Dr. Elian Thaumatec") < MaxTier
          /\ OneSwitch("Dr. Elian Thaumatec", a)
          /\ update_player_relationship("Dr. Elian Thaumatec", a, "cooperative mission")
    \/ \E k \in 0..MaxOptions :
          generate_response_options("Dr. Elian Thaumatec", "a stressful disagreement",
                                    "We need a plan", k)

SpecOptions == Init /\ [][NextOptions]_vars

(***************************************************************************)
(* The sentiment scorer called on every text of ScoreTexts.                *)
(***************************************************************************)
InitScore ==
    /\ relationship_states = <<>>
    /\ update_calls = [n \in AllNames |-> 0]
    /\ ret \in {[NoReturn EXCEPT !.kind = "call", !.text = t] : t \in ScoreTexts}
    /\ callers = NoCallers

NextScore == score_player_action

SpecScore == InitScore /\ [][NextScore]_vars

(***************************************************************************)
(* Two threads updating one ledger entry, at most MaxCalls calls in all,   *)
(* all with one action text: the host either guards every call with the    *)
(* lock or guards none.                                                    *)
(***************************************************************************)
\* every call of the run, logged or in progress, carries the action text a
OneText(npc_name, a) ==
    /\ OnlyAction(npc_name, a)
    /\ \A t \in Threads :
          callers.frame[t].pc # "idle" => callers.frame[t].player_action = a

InitThreads ==
    /\ relationship_states = <<>>
    /\ update_calls = [n \in AllNames |-> 0]
    /\ ret = NoReturn
    /\ callers \in {[NoCallers EXCEPT !.guarded = g] : g \in BOOLEAN}

NextThreads ==
    \E t \in Threads :
        \/ \E a \in {ActAllPositive, ActAllNegative} :
              /\ CallsBegun < MaxCalls
              /\ OneText("Dr. Elian Thaumatec", a)
              /\ call_update_player_relationship(t, "Dr. Elian Thaumatec", a,
                                                 "cooperative mission")
        \/ check_entry(t)
        \/ create_entry(t)
        \/ add_affinity_read(t)
        \/ add_affinity_write(t)
        \/ clamp_affinity_read(t)
        \/ clamp_affinity_target(t)
        \/ clamp_affinity_write(t)
        \/ add_trust_read(t)
        \/ add_trust_write(t)
        \/ clamp_trust_read(t)
        \/ clamp_trust_target(t)
        \/ clamp_trust_write(t)
        \/ record_read(t)
        \/ record_append(t)

SpecThreads == InitThreads /\ [][NextThreads]_vars

(***************************************************************************)
(* Properties.                                                             *)
(***************************************************************************)
ClampTo(v, lo, hi) == IF v < lo THEN lo ELSE IF v > hi THEN hi ELSE v

Range(seq) == {seq[i] : i \in 1..Len(seq)}

\* the last k records of the log all carry the sentiment score
LastScores(st, k, score) ==
    /\ Len(st.interactions) >= k
    /\ \A i \in (Len(st.interactions) - k + 1)..Len(st.interactions) :
          st.interactions[i].sentiment = score

\* C1: after any sequence of updates every ledger entry has affinity and
\* trust within [0,100], and an entry whose last 50 updates all scored +10
\* has affinity exactly 100 and trust exactly 100.
C1_ClampedLedger ==
    \A n \in DOMAIN relationship_states :
        LET st == relationship_states[n]
        IN  /\ 0 <= st.affinity /\ st.affinity <= 100
            /\ 0 <= st.trust /\ st.trust <= 100
            /\ LastScores(st, 50, 10) => st.affinity = 100 /\ st.trust = 100

C1_Witness ==
    \E n \in DOMAIN relationship_states :
        /\ LastScores(relationship_states[n], 50, 10)
        /\ relationship_states[n].affinity = 100
        /\ relationship_states[n].trust = 100

\* the entry an update starts from: the stored one, else the 50/50 baseline
PriorState(npc_name) ==
    IF npc_name \in DOMAIN relationship_states
    THEN relationship_states[npc_name]
    ELSE [affinity |-> 50, trust |-> 50, interactions |-> <<>>]

\* C2: an update with sentiment score s sets affinity to
\* clamp(affinity + s, 0, 100) and trust to clamp(trust + s/2, 0, 100),
\* starting from 50/50 for a name not yet in the ledger; the first update of
\* a fresh ledger with "I will help and protect you" yields affinity 54,
\* trust 52 and one interaction.
C2_UpdateRule ==
    [][ret'.kind = "update" =>
        LET n == ret'.npc
            s == analyze_player_action(ret'.text)
            before == PriorState(n)
            after == relationship_states'[n]
        IN  /\ after.affinity = ClampTo(before.affinity + s, 0, 100)
            /\ 2 * after.trust = ClampTo(2 * before.trust + s, 0, 200)
            /\ (relationship_states = <<>> /\ ret'.text = "I will help and protect you")
                  => /\ after.affinity = 54
                     /\ after.trust = 52
                     /\ Len(after.interactions) = 1]_vars

C2_Witness ==
    /\ DOMAIN relationship_states = {"Dr. Elian Thaumatec"}
    /\ relationship_states["Dr. Elian Thaumatec"].affinity = 54
    /\ relationship_states["Dr. Elian Thaumatec"].trust = 52
    /\ Len(relationship_states["Dr. Elian Thaumatec"].interactions) = 1
    /\ ret.kind = "update" /\ ret.text = "I will help and protect you"

\* C3: the interactions of every NPC are append-only: an update for x puts
\* exactly one record {action, context, sentiment, timestamp} at the end of
\* x's sequence, every earlier record keeps its content and place, no other
\* operation touches a sequence, and the length of x's sequence is the
\* number of update calls made for x.
C3_AppendOnly ==
    /\ [](\A n \in AllNames : LogLen(n) = update_calls[n])
    /\ [][\A n \in AllNames :
            LET before == PriorState(n).interactions
                after == IF n \in DOMAIN relationship_states'
                         THEN relationship_states'[n].interactions ELSE <<>>
            IN  IF ret'.kind = "update" /\ ret'.npc = n
                THEN /\ Len(after) = Len(before) + 1
                     /\ SubSeq(after, 1, Len(before)) = before
                     /\ DOMAIN after[Len(after)]
                           = {"action", "context", "sentiment", "timestamp"}
                     /\ after[Len(after)].action = ret'.text
                     /\ after[Len(after)].context = ret'.context
                ELSE after = before]_vars

C3_Witness ==
    /\ "Ghost" \in DOMAIN relationship_states
    /\ "Dr. Elian Thaumatec" \in DOMAIN relationship_states
    /\ Len(relationship_states["Ghost"].interactions) = 2
    /\ relationship_states["Ghost"].interactions[1].action
          # relationship_states["Ghost"].interactions[2].action
    /\ update_calls["Ghost"] = 2
    /\ ret.kind = "options"

\* C4: for an NPC of the profile store, any n >= 0 and any ledger state,
\* generate_response_options returns a sequence of exactly n strings.
C4_ExactlyN ==
    (ret.kind = "options" /\ HasProfile(ret.npc)) =>
        /\ DOMAIN ret.options = 1..ret.num
        /\ \A i \in 1..ret.num : Len(ret.options[i]) > 0

\* asked for fewer than a pool of four holds, in the high affinity, high
\* trust tier
C4_Witness ==
    /\ ret.kind = "options" /\ ret.npc = "Dr. Elian Thaumatec"
    /\ "Dr. Elian Thaumatec" \in DOMAIN relationship_states
    /\ relationship_states["Dr. Elian Thaumatec"].affinity > 60
    /\ relationship_states["Dr. Elian Thaumatec"].trust > 70
    /\ ret.num = 3
    /\ Len(ret.options) = 3

NotFoundDialogue(npc_name) == "[NPC '" \o npc_name \o "' not found in system]"
NotFoundOption(npc_name) == "[NPC '" \o npc_name \o "' not found]"

\* C5: for a name absent from the profile store, with or without a ledger
\* entry for that name, generate_dialogue returns a not-found sentinel that
\* contains the name, and generate_response_options returns n identical
\* not-found markers; no helper is consulted and nothing is raised.
C5_UnknownNpc ==
    (ret.kind \in {"dialogue", "options", "raise"} /\ ret.npc \notin ProfileNames) =>
        /\ ret.kind # "raise"
        /\ ret.consulted = {}
        /\ ret.kind = "dialogue" =>
              /\ ret.text = NotFoundDialogue(ret.npc)
              /\ Contains(ret.text, ret.npc)
              /\ Contains(ret.text, "not found")
        /\ ret.kind = "options" =>
              /\ Len(ret.options) = ret.num
              /\ \A i \in 1..Len(ret.options) :
                    /\ ret.options[i] = NotFoundOption(ret.npc)
                    /\ Contains(ret.options[i], "not found")

C5_Witness ==
    /\ "Ghost" \in DOMAIN relationship_states
    /\ ret.kind = "options" /\ ret.npc = "Ghost"
    /\ ret.num = 3
    /\ ret.options = <<"[NPC 'Ghost' not found]", "[NPC 'Ghost' not found]",
                       "[NPC 'Ghost' not found]">>

\* the keyword w, written in lower case, occurs in text whatever the case of
\* the letters of text
OccursIgnoringCase(text, w) ==
    \E i \in 1..(Len(text) - Len(w) + 1) :
        \A j \in 1..Len(w) : LowerChar(CharAt(text, i + j - 1)) = CharAt(w, j)

PositiveCount(text) ==
    Cardinality({w \in Range(positive_keywords) : OccursIgnoringCase(text, w)})

NegativeCount(text) ==
    Cardinality({w \in Range(negative_keywords) : OccursIgnoringCase(text, w)})

\* C6: the sentiment score of a text is clamp(2*P - 2*N, -10, 10), P and N
\* being the numbers of distinct positive and negative keywords that occur
\* in it as case-insensitive substrings; with k positive keywords and no
\* negative one the score is min(10, 2k); every score lies in [-10, 10].
C6_ScoreFormula ==
    ret.kind = "score" =>
        /\ ret.num = ClampTo(2 * PositiveCount(ret.text) - 2 * NegativeCount(ret.text),
                             -10, 10)
        /\ NegativeCount(ret.text) = 0 => ret.num = Min(10, 2 * PositiveCount(ret.text))
        /\ -10 <= ret.num /\ ret.num <= 10

\* six positive keywords, some capitalised, none negative: 12 clamped to 10
C6_Witness ==
    /\ ret.kind = "score"
    /\ PositiveCount(ret.text) = 6
    /\ NegativeCount(ret.text) = 0
    /\ Contains(ret.text, "PROTECT")
    /\ ret.num = 10

\* the characters of a placeholder name
NameChars == {CharAt(LowerCase, i) : i \in 1..26} \cup {"_"}

\* the placeholder tokens of text: every piece {name} with a non-empty name
Tokens(text) ==
    {SubSeq(text, i, j) : i \in {k \in 1..Len(text) : CharAt(text, k) = "{"},
                          j \in {k \in 1..Len(text) : CharAt(text, k) = "}"}}
    \cap {t \in {SubSeq(text, i, j) :
                    i \in {k \in 1..Len(text) : CharAt(text, k) = "{"},
                    j \in {k \in 1..Len(text) : CharAt(text, k) = "}"}} :
            /\ Len(t) > 2
            /\ \A k \in 2..(Len(t) - 1) : CharAt(t, k) \in NameChars}

CatalogTemplates ==
    UNION {{prompt_templates[c][st] : st \in DOMAIN prompt_templates[c]} :
              c \in {"greeting", "quest_offer", "response_to_player_choice"}}

\* C7: for every template of the catalog, every mood and every NPC profile
\* the rendered text contains no placeholder token, every placeholder name
\* used by a catalog template or by the generic template having an entry in
\* the substitution table.
C7_NoPlaceholderLeft ==
    /\ \A t \in CatalogTemplates \cup {GenericTemplate} :
          Tokens(t) \subseteq
              {Replacements(npc_profiles.npcs[1], "Hmm...")[i][1] : i \in 1..9}
    /\ (ret.kind = "dialogue" /\ HasProfile(ret.npc)) => Tokens(ret.text) = {}

\* the words of an alignment, read off the blanks
EndsWith(s, tail) ==
    Len(s) >= Len(tail) /\ SubSeq(s, Len(s) - Len(tail) + 1, Len(s)) = tail

TwoWords(s) == Cardinality({i \in 1..Len(s) : CharAt(s, i) = " "}) = 1
                  /\ CharAt(s, 1) # " " /\ CharAt(s, Len(s)) # " "

\* C8: for context "greeting" and any history the style is "friendly" for a
\* profile whose alignment has "Good" as second word and "cautious" for every
\* other two-word alignment, and never another label.
C8_GreetingStyle ==
    (/\ ret.kind = "dialogue" /\ HasProfile(ret.npc) /\ ret.context = "greeting"
     /\ TwoWords(FindProfile(ret.npc).alignment)) =>
        /\ ret.style \in {"friendly", "cautious"}
        /\ ret.style = "friendly" <=> EndsWith(FindProfile(ret.npc).alignment, " Good")

C8_Witness ==
    /\ ret.kind = "dialogue" /\ ret.context = "greeting"
    /\ ret.npc = "Dr. Elian Thaumatec"
    /\ ret.style = "friendly"
    /\ Contains(ret.text, "Hello! Great to see you here! I'm Dr. Elian Thaumatec.")

\* C9: the relationship map changes in update_player_relationship only:
\* the two generators leave it as it is and create no entry, an update for x
\* leaves every other entry as it is, and no entry is ever removed.
C9_LedgerFrame ==
    [][/\ ret'.kind # "update" => relationship_states' = relationship_states
       /\ ret'.kind = "update" =>
             /\ DOMAIN relationship_states' = DOMAIN relationship_states \cup {ret'.npc}
             /\ \A n \in DOMAIN relationship_states \ {ret'.npc} :
                   relationship_states'[n] = relationship_states[n]
       /\ DOMAIN relationship_states \subseteq DOMAIN relationship_states']_vars

\* options were asked for an NPC without an entry while another has one
C9_Witness ==
    /\ ret.kind = "options" /\ ret.npc = "Dr. Elian Thaumatec"
    /\ DOMAIN relationship_states = {"Ghost"}
    /\ Len(ret.options) = 2

MoodPrefix(mood) == "[" \o prompt_templates.mood_modifiers[mood].speech_patterns \o "] "

CatalogContexts == {"greeting", "quest_offer", "response_to_player_choice"}

\* C10: for a known NPC the pair (context, selected style) is a template of
\* the catalog exactly for the contexts "greeting", "quest_offer" and
\* "response_to_player_choice"; for every other label, "mood_modifiers"
\* included, generate_dialogue does not fail and returns the mood prefix
\* followed by "Hello, I'm <name>. How can I help?".
C10_GenericFallback ==
    (ret.kind \in {"dialogue", "raise"} /\ HasProfile(ret.npc)) =>
        /\ ret.kind = "dialogue" =>
              ((/\ ret.context \in DOMAIN prompt_templates
                /\ ret.style \in DOMAIN prompt_templates[ret.context]
                /\ Len(prompt_templates[ret.context][ret.style]) > 0)
               <=> ret.context \in CatalogContexts)
        /\ ret.context \notin CatalogContexts =>
              /\ ret.kind = "dialogue"
              /\ ret.text = MoodPrefix(ret.mood) \o "Hello, I'm " \o ret.npc
                               \o ". How can I help?"

C10_Witness ==
    /\ ret.kind = "dialogue" /\ ret.context = "mood_modifiers"
    /\ ret.npc = "Sylva Aerafrond" /\ ret.mood = "sad"
    /\ ret.text = "[slow and melancholic] Hello, I'm Sylva Aerafrond. How can I help?"

\* context labels a caller can pass for a quest offer, urgent or not
QuestLabels == {"quest_offer", "quest_offer_urgency", "urgency", "Quest_Offer URGENCY"}

\* C11: for context "quest_offer" the style is "urgent" if "urgency" occurs
\* in the context label, otherwise "mysterious" for the classes
\* "Techno-Mage Scientist" and "Sentient Alien Pet", otherwise "casual"; and
\* each of the three styles is selected for some input.
C11_QuestStyle ==
    /\ (ret.kind = "dialogue" /\ HasProfile(ret.npc) /\ ret.context = "quest_offer") =>
          ret.style = IF Contains(ret.context, "urgency") THEN "urgent"
                      ELSE IF FindProfile(ret.npc).class
                                \in {"Techno-Mage Scientist", "Sentient Alien Pet"}
                           THEN "mysterious"
                           ELSE "casual"
    /\ \A style \in {"urgent", "mysterious", "casual"} :
          \E i \in 1..Len(npc_profiles.npcs), c \in QuestLabels,
             h \in {NoHistory, SomeHistory} :
             determine_interaction_style(npc_profiles.npcs[i], c, h) = style

\* affinity/2 <= trust <= affinity/2 + 50, in whole numbers
TrustBand(affinity, trust) ==
    /\ affinity <= 2 * trust
    /\ 2 * trust <= affinity + 100

\* C13: every ledger entry reachable from the 50/50 baseline by updates has
\* affinity/2 <= trust <= affinity/2 + 50, so trust > 70 implies
\* affinity > 40; the cautious option (affinity < 40) and the honest-opinion
\* option (trust > 70) are never both in the candidate pool, and the pool
\* generate_response_options builds for an NPC of the profile store has
\* between 2 and 4 entries.
C13_TrustBand ==
    /\ \A n \in DOMAIN relationship_states :
          LET st == relationship_states[n]
          IN  /\ TrustBand(st.affinity, st.trust)
              /\ st.trust > 70 => st.affinity > 40
    /\ (ret.kind = "options" /\ HasProfile(ret.npc)) =>
          LET relationship == GetRelationship(relationship_states, ret.npc)
          IN  /\ ~({"_generate_cautious_response", "_generate_honest_opinion"}
                      \subseteq ret.consulted)
              /\ ret.consulted = PoolHelpers(relationship.affinity, relationship.trust)
              /\ \A nickname \in get_player_nickname(relationship.affinity) :
                    LET options == OptionPool(FindProfile(ret.npc), ret.context,
                                              relationship.affinity,
                                              relationship.trust, nickname)
                    IN  Len(options) \in 2..4
              /\ \E nickname \in get_player_nickname(relationship.affinity) :
                    LET options == OptionPool(FindProfile(ret.npc), ret.context,
                                              relationship.affinity,
                                              relationship.trust, nickname)
                    IN  Len(options) <= ret.num =>
                            SubSeq(ret.options, 1, Len(options)) = options

\* options asked for at affinity 60, trust 75: the honest opinion is in the
\* pool of three, as close to the cautious tier as a trust above 70 allows
C13_Witness ==
    /\ ret.kind = "options" /\ ret.npc = "Dr. Elian Thaumatec"
    /\ "Dr. Elian Thaumatec" \in DOMAIN relationship_states
    /\ relationship_states["Dr. Elian Thaumatec"].affinity = 60
    /\ relationship_states["Dr. Elian Thaumatec"].trust = 75
    /\ "_generate_honest_opinion" \in ret.consulted
    /\ ret.num = 3
    /\ Len(ret.options) = 3

\* the entry that the atomic update builds from the records of log, in order
RECURSIVE Replay(_, _)
Replay(log, k) ==
    IF k = 0 THEN DefaultState
    ELSE UpdatedState(Replay(log, k - 1), log[k].action, log[k].context)

\* C12: when every call of update_player_relationship runs under the lock,
\* every state another caller can observe (the lock is free) has affinity
\* and trust within [0,100] and no update or interaction record is lost:
\* each entry holds one record per call and is what the calls, run one
\* after the other, produce.  Without the lock some interleaving of the
\* check, the add and the clamp exposes a value outside [0,100] and loses
\* an update and its record (C12_Witness).
C12_GuardedLedger ==
    (callers.guarded /\ callers.lock = 0) =>
        /\ \A t \in Threads : callers.frame[t].pc = "idle"
        /\ \A n \in DOMAIN relationship_states :
              LET st == relationship_states[n]
              IN  /\ 0 <= st.affinity /\ st.affinity <= 100
                  /\ 0 <= st.trust /\ st.trust <= 100
                  /\ Len(st.interactions) = update_calls[n]
                  /\ st = Replay(st.interactions, Len(st.interactions))
        /\ \A n \in AllNames \ DOMAIN relationship_states : update_calls[n] = 0

\* no lock: one thread has added to an affinity of 100 and not yet clamped,
\* the other is free to call and reads 110; earlier both threads created the
\* entry, which lost a finished update and its record
C12_Witness ==
    /\ ~callers.guarded
    /\ "Dr. Elian Thaumatec" \in DOMAIN relationship_states
    /\ relationship_states["Dr. Elian Thaumatec"].affinity > 100
    /\ Len(relationship_states["Dr. Elian Thaumatec"].interactions)
          < update_calls["Dr. Elian Thaumatec"]
    /\ \E t \in Threads :
          /\ callers.frame[t].pc = "clamp"
          /\ \A u \in Threads \ {t} : callers.frame[u].pc = "idle"

====
